---- MODULE Spec2Model ----
(***************************************************************************)
(* Model of the google_groups_recon tools of vibe-sec-tools:               *)
(*   trim_google_group_urls       (URL Normalizer / Deduplicator)          *)
(*   filter_google_group_domains  (Domain Extractor)                       *)
(*   check_google_group_permissions (Permission Prober)                    *)
(*   fetch_alienvault             (Archive Fetcher)                        *)
(* Each tool is a separate process; one specification per tool.            *)
(*                                                                         *)
(* A text line is a sequence of tokens.  A token is either one character   *)
(* ("/", "?", "#", "a", "g", "x", "y") or a slash-free literal chunk of    *)
(* the URL ("https:", "http:", "ftp:", "groups.google.com").  The regular  *)
(* expressions of the tools are evaluated token by token, unanchored and   *)
(* leftmost-first, as Go's regexp package evaluates them.                  *)
(***************************************************************************)
EXTENDS Integers, Sequences, FiniteSets, TLC

VARIABLES
    pc,          \* position of the running tool: "run", "done" (exit 0), "exit1"
    stdin,       \* the lines the scanner has returned so far, in order
    stdout,      \* what was written to the primary output, in order
    stderr,      \* what was written to the diagnostic stream, in order
    seen,        \* the seen map of trim_/filter_ (the set of keys mapped to true)
    trim,        \* the -trim flag of trim_google_group_urls
    requirePost, \* the -require-post flag of check_google_group_permissions
    verbose,     \* the -verbose flag of check_google_group_permissions
    requests,    \* the about-page URLs check_ has requested, in order
    results,     \* per input line of check_: its terminal state, perms and response
    ticks,       \* number of ticks check_ has received from ticker.C
    clock,       \* check_: time since time.NewTicker, in tenths of a second
    tickerC,     \* check_: number of ticks waiting in the channel ticker.C
    probeStarts, \* check_: the times at which checkGroupHTML was called
    archive,     \* the archive fetch_alienvault pages through (its input)
    page,        \* fetch_alienvault: the page cursor
    count,       \* fetch_alienvault: the running counter
    startTime,   \* fetch_alienvault: start of the current hour window (seconds)
    now,         \* the wall clock (seconds)
    fetches,     \* number of fetchURLs calls made so far
    windowReqs,  \* number of fetchURLs calls made since startTime was last set
    sleeps,      \* number of time.Sleep calls made so far
    sinceSleep,  \* number of fetchURLs calls made since the last time.Sleep
    sumActual,   \* sum of the actual_size fields of the pages fetched so far
    lastFetch,   \* the page and the outcome of the last fetchURLs call
    lastHasNext  \* the has_next field the archive sent in its last answer

ioVars    == <<pc, stdin, stdout, stderr>>
dedupVars == <<seen, trim>>
checkVars == <<requirePost, verbose, requests, results, ticks, clock, tickerC,
               probeStarts>>
fetchVars == <<archive, page, count, startTime, now, fetches, windowReqs, sleeps,
               sinceSleep, sumActual, lastFetch, lastHasNext>>
vars      == <<ioVars, dedupVars, checkVars, fetchVars>>

\* The variables of the tools that are not running keep these values.
CheckIdle ==
    /\ requirePost = FALSE
    /\ verbose = FALSE
    /\ requests = <<>>
    /\ results = <<>>
    /\ ticks = 0
    /\ clock = 0
    /\ tickerC = 0
    /\ probeStarts = <<>>

FetchIdle ==
    /\ archive = <<>>
    /\ page = 0
    /\ count = 0
    /\ startTime = 0
    /\ now = 0
    /\ fetches = 0
    /\ windowReqs = 0
    /\ sleeps = 0
    /\ sinceSleep = 0
    /\ sumActual = 0
    /\ lastFetch = <<>>
    /\ lastHasNext = FALSE

DedupIdle ==
    /\ seen = {}
    /\ trim = FALSE

\* Number of input lines of one run of trim_ and of filter_.
MaxLines == 3

\* Number of input lines of one run of check_.
MaxProbeLines == 2

\* Number of leading archive pages whose sizes are chosen freely; the pages
\* after them all have one size.
MaxMixed == 1

\* fetch_alienvault is followed up to this page,
MaxPages == 9501

\* and while it has written at most this many URLs.
MaxURLs == 19000

\* Seconds a slow fetchURLs call takes (a fast one takes none).
SlowFetch == 60

\* The page at which, at the latest, the archive answers has_next=false or
\* the request fails, in the runs checked for termination.
LastPage == 100

\* Number of input lines of one run of check_ in the runs that follow its
\* timing.
MaxRateLines == 7

\* Tenths of a second a slow iteration of check_ takes from the call of
\* checkGroupHTML to the next line read (a fast one takes none).
SlowProbe == 3

----------------------------------------------------------------------------
(* Lines.                                                                  *)

Host == "groups.google.com"

\* scheme://groups.google.com/a/{dom}/g/{grp}{suf}
URL(scheme, dom, grp, suf) ==
    <<scheme, "/", "/", Host, "/", "a", "/">> \o dom \o <<"/", "g", "/">> \o grp \o suf

\* The lines the input stream may hold.
Lines ==
    { URL("https:", <<"x">>, <<"x">>, <<>>),            \* a base group URL
      URL("https:", <<"x">>, <<"x">>, <<"?", "y">>),    \* ... with a query string
      URL("https:", <<"x">>, <<"x">>, <<"#", "y">>),    \* ... with a fragment
      URL("https:", <<"x">>, <<"x">>, <<"/", "y">>),    \* ... with a sub-path
      URL("http:",  <<"x">>, <<"x">>, <<>>),            \* the other scheme
      URL("https:", <<"y">>, <<"x">>, <<>>),            \* another domain
      URL("https:", <<"x">>, <<"y">>, <<>>),            \* another group
      URL("https:", <<"x">>, <<>>, <<>>),               \* empty group: .../a/x/g/
      URL("https:", <<>>, <<"x">>, <<>>),               \* empty domain: .../a//g/x
      URL("https:", <<"x">>, <<>>, <<"?", "y">>),       \* .../a/x/g/?y
      URL("ftp:",   <<"x">>, <<"x">>, <<>>),            \* a scheme the tools reject
      <<"/">> \o URL("https:", <<"y">>, <<"y">>, <<>>), \* text before the URL
      <<"https:", "/", "/", Host, "/", "a", "/", "x", "/", "y", "/", "x">>,  \* no /g/
      <<"https:", "/", "/", "x", "/", "a", "/", "x", "/", "g", "/", "x">>,   \* other host
      <<>> }                                            \* the empty line

----------------------------------------------------------------------------
(* Regular expression matching over token sequences.                       *)

\* The last index of the longest run of tokens outside Excl that starts at i
\* (i - 1 when the run is empty): a greedy [^...]+ / [^...]* .
RECURSIVE RunEnd(_, _, _)
RunEnd(s, i, Excl) ==
    IF i <= Len(s) /\ s[i] \notin Excl THEN RunEnd(s, i + 1, Excl) ELSE i - 1

\* https?://groups\.google\.com/a/ matches s at i.
PrefixAt(s, i) ==
    /\ i >= 1
    /\ i + 6 <= Len(s)
    /\ s[i] \in {"https:", "http:"}
    /\ s[i + 1] = "/"
    /\ s[i + 2] = "/"
    /\ s[i + 3] = Host
    /\ s[i + 4] = "/"
    /\ s[i + 5] = "a"
    /\ s[i + 6] = "/"

\* /g/ matches s at i.
SlashGAt(s, i) ==
    /\ i + 2 <= Len(s)
    /\ s[i] = "/"
    /\ s[i + 1] = "g"
    /\ s[i + 2] = "/"

\* The end of the match of  https?://groups\.google\.com/a/[^/]+/g/  at i, 0 if none.
DomainPartEnd(s, i) ==
    LET d0   == i + 7
        dEnd == RunEnd(s, d0, {"/"})
    IN  IF PrefixAt(s, i) /\ dEnd >= d0 /\ SlashGAt(s, dEnd + 1) THEN dEnd + 3 ELSE 0

\* Go's regexp reports the leftmost match: the least of the start indices I
\* at which a pattern matches, 0 if there is none.
LeftMost(I) == IF I = {} THEN 0 ELSE CHOOSE i \in I : \A j \in I : i <= j

----------------------------------------------------------------------------
(* trim_google_group_urls                                                  *)

\* pattern: https?://groups\.google\.com/a/[^/]+/g/[^/]+ ; the end of its
\* match at i, 0 if none.
TrimPatternEnd(s, i) ==
    LET e    == DomainPartEnd(s, i)
        gEnd == RunEnd(s, e + 1, {"/"})
    IN  IF e # 0 /\ gEnd >= e + 1 THEN gEnd ELSE 0

\* pattern.FindString(url) with the last token of the match cut off.
TrimFindString_DropLast(url) ==
    LET i == LeftMost({k \in 1..Len(url) : TrimPatternEnd(url, k) # 0})
    IN  IF i = 0 THEN <<>> ELSE SubSeq(url, i, TrimPatternEnd(url, i) - 1)

\* pattern.FindString(url): the text of the leftmost match, "" if none.
TrimFindString(url) ==
    LET i == LeftMost({k \in 1..Len(url) : TrimPatternEnd(url, k) # 0})
    IN  IF i = 0 THEN <<>> ELSE SubSeq(url, i, TrimPatternEnd(url, i))

\* pattern.MatchString(url)
TrimMatchString(url) == LeftMost({k \in 1..Len(url) : TrimPatternEnd(url, k) # 0}) # 0

TrimInit ==
    /\ pc = "run"
    /\ stdin = <<>>
    /\ stdout = <<>>
    /\ stderr = <<>>
    /\ seen = {}
    /\ trim \in BOOLEAN
    /\ CheckIdle
    /\ FetchIdle

\* One iteration of the scanner loop on the line url, without the update of
\* the seen map.
TrimLine_NoMark(url) ==
    /\ pc = "run"
    /\ Len(stdin) < MaxLines
    /\ stdin' = Append(stdin, url)
    /\ IF IF trim THEN TrimFindString(url) # <<>> ELSE TrimMatchString(url)
       THEN stdout' = Append(stdout, IF trim THEN TrimFindString(url) ELSE url)
       ELSE UNCHANGED stdout
    /\ UNCHANGED <<pc, stderr, seen, trim, checkVars, fetchVars>>

\* One iteration of the scanner loop on the line url.
TrimLine(url) ==
    /\ pc = "run"
    /\ Len(stdin) < MaxLines
    /\ stdin' = Append(stdin, url)
    /\ IF trim
       THEN LET match == TrimFindString(url)
            IN  IF match # <<>> /\ match \notin seen
                THEN /\ seen' = seen \cup {match}
                     /\ stdout' = Append(stdout, match)
                ELSE UNCHANGED <<seen, stdout>>
       ELSE IF TrimMatchString(url) /\ url \notin seen
            THEN /\ seen' = seen \cup {url}
                 /\ stdout' = Append(stdout, url)
            ELSE UNCHANGED <<seen, stdout>>
    /\ UNCHANGED <<pc, stderr, trim, checkVars, fetchVars>>

\* scanner.Scan() returns false at the end of the input, scanner.Err() is nil.
ScanEOF ==
    /\ pc = "run"
    /\ pc' = "done"
    /\ UNCHANGED <<stdin, stdout, stderr, dedupVars, checkVars, fetchVars>>

\* scanner.Scan() returns false on a read error: the tool reports it and
\* calls os.Exit(1).
ScanError ==
    /\ pc = "run"
    /\ pc' = "exit1"
    /\ stderr' = Append(stderr, <<"Error reading input">>)
    /\ UNCHANGED <<stdin, stdout, dedupVars, checkVars, fetchVars>>

TrimNext ==
    \/ \E url \in Lines : TrimLine(url)
    \/ ScanEOF
    \/ ScanError

TrimSpec == TrimInit /\ [][TrimNext]_vars

----------------------------------------------------------------------------
(* filter_google_group_domains                                             *)

\* pattern: https?://groups\.google\.com/a/([^/]+)/g/ ; the end of its match
\* at i, 0 if none.
FilterPatternEnd(s, i) == DomainPartEnd(s, i)

\* pattern.FindStringSubmatch(url): <<whole match, group 1>>, <<>> if none.
FilterFindStringSubmatch(url) ==
    LET i == LeftMost({k \in 1..Len(url) : FilterPatternEnd(url, k) # 0})
        e == FilterPatternEnd(url, i)
    IN  IF i = 0 THEN <<>> ELSE <<SubSeq(url, i, e), SubSeq(url, i + 7, e - 3)>>

FilterInit ==
    /\ pc = "run"
    /\ stdin = <<>>
    /\ stdout = <<>>
    /\ stderr = <<>>
    /\ seen = {}
    /\ trim = FALSE
    /\ CheckIdle
    /\ FetchIdle

\* One iteration of the scanner loop on the line url, deduplicating on the
\* whole match instead of the captured domain.
FilterLine_KeyWhole(url) ==
    /\ pc = "run"
    /\ Len(stdin) < MaxLines
    /\ stdin' = Append(stdin, url)
    /\ LET matches == FilterFindStringSubmatch(url)
       IN  IF Len(matches) > 1 /\ matches[1] \notin seen
           THEN /\ seen' = seen \cup {matches[1]}
                /\ stdout' = Append(stdout, matches[2])
           ELSE UNCHANGED <<seen, stdout>>
    /\ UNCHANGED <<pc, stderr, trim, checkVars, fetchVars>>

\* One iteration of the scanner loop on the line url.
FilterLine(url) ==
    /\ pc = "run"
    /\ Len(stdin) < MaxLines
    /\ stdin' = Append(stdin, url)
    /\ LET matches == FilterFindStringSubmatch(url)
       IN  IF Len(matches) > 1
           THEN LET domain == matches[2]
                IN  IF domain \notin seen
                    THEN /\ seen' = seen \cup {domain}
                         /\ stdout' = Append(stdout, domain)
                    ELSE UNCHANGED <<seen, stdout>>
           ELSE UNCHANGED <<seen, stdout>>
    /\ UNCHANGED <<pc, stderr, trim, checkVars, fetchVars>>

FilterNext ==
    \/ \E url \in Lines : FilterLine(url)
    \/ ScanEOF
    \/ ScanError

FilterSpec == FilterInit /\ [][FilterNext]_vars

----------------------------------------------------------------------------
(* check_google_group_permissions                                          *)

\* The lines the input stream of check_ may hold.
ProbeLines ==
    { URL("https:", <<"x">>, <<"x">>, <<>>),                 \* a base group URL
      <<"/">> \o URL("http:", <<"y">>, <<"x">>, <<"?", "y">>), \* text, http, a query
      URL("https:", <<"x">>, <<>>, <<"?", "y">>),            \* no group name
      <<>> }                                                 \* the empty line

\* pattern: https?://groups\.google\.com/a/([^/]+)/g/([^/?#]+) ; the end of
\* its match at i, 0 if none.
CheckPatternEnd(s, i) ==
    LET e    == DomainPartEnd(s, i)
        gEnd == RunEnd(s, e + 1, {"/", "?", "#"})
    IN  IF e # 0 /\ gEnd >= e + 1 THEN gEnd ELSE 0

\* pattern.FindStringSubmatch(url): <<whole match, domain, groupName>>, <<>>
\* if none.
CheckFindStringSubmatch(url) ==
    LET i == LeftMost({k \in 1..Len(url) : CheckPatternEnd(url, k) # 0})
        e == CheckPatternEnd(url, i)
        d == DomainPartEnd(url, i)
    IN  IF i = 0 THEN <<>>
        ELSE <<SubSeq(url, i, e), SubSeq(url, i + 7, d - 3), SubSeq(url, d + 1, e)>>

\* extractGroupEmail(url): groupName@domain, "" if the pattern does not match.
extractGroupEmail(url) ==
    LET matches == CheckFindStringSubmatch(url)
    IN  IF Len(matches) > 2 THEN matches[3] \o <<"@">> \o matches[2] ELSE <<>>

\* The redirect cap of CheckRedirect.
MaxRedirects == 10

\* The lookahead window of the permission patterns: .{0,50}?
Lookahead == 50

\* Tokens of a response body: the phrases of the patterns, text without a
\* line break, and the line break.
AnyoneOnTheWeb == "Anyone on the web"
CanViewPhrase  == "can view conversations"
CanJoinPhrase  == "can join group"
CanPostPhrase  == "can post"
Space          == " "
MembersText    == ". Group members "
LongText       == "<51 characters on one line>"
LineBreak      == "\n"

\* Number of characters of a body token.
TokLen(t) ==
    CASE t = AnyoneOnTheWeb -> 17
      [] t = CanViewPhrase  -> 22
      [] t = CanJoinPhrase  -> 14
      [] t = CanPostPhrase  -> 8
      [] t = Space          -> 1
      [] t = MembersText    -> 16
      [] t = LongText       -> 51
      [] OTHER              -> 1

RECURSIVE SpanLen(_, _, _)
SpanLen(body, i, j) == IF i > j THEN 0 ELSE TokLen(body[i]) + SpanLen(body, i + 1, j)

\* regexp `Anyone on the web.{0,50}?<phrase>` matches body ("." matches no
\* line break).
PermPatternMatch(body, phrase) ==
    \E i, j \in DOMAIN body :
        /\ i < j
        /\ body[i] = AnyoneOnTheWeb
        /\ body[j] = phrase
        /\ \A k \in (i + 1)..(j - 1) : body[k] # LineBreak
        /\ SpanLen(body, i + 1, j - 1) <= Lookahead

\* The bodies an about page may have.
Bodies ==
    { <<>>,
      <<AnyoneOnTheWeb, Space, CanViewPhrase>>,
      <<AnyoneOnTheWeb, Space, CanJoinPhrase>>,
      <<AnyoneOnTheWeb, Space, CanPostPhrase>>,
      <<AnyoneOnTheWeb, Space, CanViewPhrase, LineBreak,
        AnyoneOnTheWeb, Space, CanPostPhrase>>,
      <<AnyoneOnTheWeb, Space, CanViewPhrase, MembersText, CanPostPhrase>>,
      <<AnyoneOnTheWeb, LongText, CanViewPhrase>>,
      <<CanViewPhrase, LineBreak, AnyoneOnTheWeb, LineBreak, CanJoinPhrase>> }

\* What the network answers to one about-page request: hops redirects to
\* locations outside the login domain, then either a transport failure
\* (kind "neterr") or a response with a status, for a 3xx status the kind
\* of its Location ("login": contains accounts.google.com, "none": no
\* Location header), a body, and whether the body can be read to its end.
Answer(hops, kind, status, location, body, bodyOK) ==
    [hops |-> hops, kind |-> kind, status |-> status, location |-> location,
     body |-> body, bodyOK |-> bodyOK]

NoAnswer == Answer(0, "none", 0, "none", <<>>, TRUE)

\* The statuses net/http treats as redirects.
RedirectStatuses == {301, 302, 303, 307, 308}

Answers ==
    {Answer(0, "response", 200, "none", b, TRUE) : b \in Bodies}
    \cup {Answer(0, "response", 200, "none", <<>>, FALSE)}
    \cup {Answer(0, "response", st, "login", <<>>, TRUE) : st \in RedirectStatuses}
    \cup {Answer(0, "response", st, "none", <<>>, TRUE) : st \in {302, 401, 403, 404}}
    \cup {Answer(0, "neterr", 0, "none", <<>>, TRUE)}
    \cup {Answer(MaxRedirects - 1, "response", 302, "login", <<>>, TRUE)}
    \cup {Answer(MaxRedirects - 1, "response", st, "none", <<>>, TRUE) : st \in {200, 404}}
    \cup {Answer(MaxRedirects, "response", 200, "none", <<>>, TRUE)}

\* client.CheckRedirect for a redirect to a location of kind target when
\* viaLen requests have been made: "uselast" (http.ErrUseLastResponse),
\* "error" (too many redirects) or "follow".
CheckRedirect(target, viaLen) ==
    IF target = "login" THEN "uselast"
    ELSE IF viaLen >= MaxRedirects THEN "error"
    ELSE "follow"

\* client.Do: the response returned after viaLen - 1 redirects were followed,
\* or an error.
RECURSIVE ClientDo(_, _)
ClientDo(ans, viaLen) ==
    IF viaLen <= ans.hops
    THEN IF CheckRedirect("other", viaLen) = "follow"
         THEN ClientDo(ans, viaLen + 1)
         ELSE [err |-> TRUE, status |-> 0]
    ELSE IF ans.kind = "neterr" THEN [err |-> TRUE, status |-> 0]
    ELSE IF ans.status \in RedirectStatuses /\ ans.location = "login"
         THEN IF CheckRedirect("login", viaLen) = "uselast"
              THEN [err |-> FALSE, status |-> ans.status]
              ELSE [err |-> TRUE, status |-> 0]
    ELSE [err |-> FALSE, status |-> ans.status]

\* A GroupPermissions whose IsPublic is set whatever the response was.
GroupPermissions_AlwaysPublic(isPublic, canView, canPost, canJoin, requireAuth) ==
    [IsPublic |-> TRUE, CanView |-> canView, CanPost |-> canPost,
     CanJoin |-> canJoin, RequireAuth |-> requireAuth]

\* The value of a *GroupPermissions.
GroupPermissions(isPublic, canView, canPost, canJoin, requireAuth) ==
    [IsPublic |-> isPublic, CanView |-> canView, CanPost |-> canPost,
     CanJoin |-> canJoin, RequireAuth |-> requireAuth]

NoPermissions == GroupPermissions(FALSE, FALSE, FALSE, FALSE, FALSE)

\* The about-page URL built from the whole match instead of its two groups.
normalizedURL_WholeMatch(url) ==
    LET matches == CheckFindStringSubmatch(url)
    IN  matches[1] \o <<"/", "about">>

\* The about-page URL checkGroupHTML requests for url.
normalizedURL(url) ==
    LET matches == CheckFindStringSubmatch(url)
    IN  URL("https:", matches[2], matches[3], <<"/", "about">>)

\* checkGroupHTML(url, client) when the network answers ans:
\* [err, perms]; perms is meaningful when err is FALSE.
checkGroupHTML(url, ans) ==
    LET resp == ClientDo(ans, 1)
    IN  IF Len(CheckFindStringSubmatch(url)) < 3
            THEN [err |-> TRUE, perms |-> NoPermissions]
        ELSE IF resp.err
            THEN [err |-> TRUE, perms |-> NoPermissions]
        ELSE IF resp.status = 302 \/ resp.status = 401 \/ resp.status = 403
            THEN [err |-> FALSE,
                  perms |-> GroupPermissions(FALSE, FALSE, FALSE, FALSE, TRUE)]
        ELSE IF resp.status # 200
            THEN [err |-> TRUE, perms |-> NoPermissions]
        ELSE IF ~ans.bodyOK
            THEN [err |-> TRUE, perms |-> NoPermissions]
        ELSE [err |-> FALSE,
              perms |-> GroupPermissions(TRUE,
                            PermPatternMatch(ans.body, CanViewPhrase),
                            PermPatternMatch(ans.body, CanPostPhrase),
                            PermPatternMatch(ans.body, CanJoinPhrase),
                            FALSE)]

\* isOpen of main, with || and && of the first test exchanged.
isOpen_OrAnd(perms) ==
    LET open == perms.IsPublic \/ (perms.CanView /\ perms.CanJoin)
    IN  IF requirePost THEN open /\ perms.CanPost ELSE open

\* isOpen of main that is false whenever -verbose is set.
isOpen_QuietWhenVerbose(perms) ==
    LET open == perms.IsPublic /\ (perms.CanView \/ perms.CanJoin)
    IN  (IF requirePost THEN open /\ perms.CanPost ELSE open) /\ ~verbose

\* isOpen of main: whether the group counts as open.
isOpen(perms) ==
    LET open == perms.IsPublic /\ (perms.CanView \/ perms.CanJoin)
    IN  IF requirePost THEN open /\ perms.CanPost ELSE open

\* rateLimit = time.Second / 5, in tenths of a second.
rateLimit == 2

\* time.Second, in tenths of a second.
Second == 10

\* The ticker sends a tick on ticker.C every rateLimit, the first one
\* rateLimit after time.NewTicker: the time of the first tick after time t.
NextTick(t) == ((t \div rateLimit) + 1) * rateLimit

\* A tick is sent at a time in (a, b].
TickWithin(a, b) == NextTick(a) <= b

\* The ticker and the clock during one iteration of the scanner loop that
\* takes d tenths of a second.  ticker.C holds at most one tick; a tick sent
\* while it is full is dropped.  With probe, the iteration first receives
\* from ticker.C (at once when a tick is waiting, else at the next tick) and
\* then calls checkGroupHTML.
Limiter(probe, d) ==
    IF probe
    THEN LET start == IF tickerC > 0 THEN clock ELSE NextTick(clock)
         IN  /\ probeStarts' = Append(probeStarts, start)
             /\ clock' = start + d
             /\ tickerC' = IF TickWithin(start, start + d) THEN 1 ELSE 0
    ELSE /\ clock' = clock + d
         /\ tickerC' = IF tickerC > 0 \/ TickWithin(clock, clock + d) THEN 1 ELSE 0
         /\ UNCHANGED probeStarts

CheckInit ==
    /\ pc = "run"
    /\ stdin = <<>>
    /\ stdout = <<>>
    /\ stderr = <<>>
    /\ requirePost \in BOOLEAN
    /\ verbose \in BOOLEAN
    /\ requests = <<>>
    /\ results = <<>>
    /\ ticks = 0
    /\ clock = 0
    /\ tickerC = 0
    /\ probeStarts = <<>>
    /\ DedupIdle
    /\ FetchIdle

Result(state, hasPerms, perms, ans) ==
    [state |-> state, hasPerms |-> hasPerms, perms |-> perms, answer |-> ans]

\* One iteration of the scanner loop that ends the run when checkGroupHTML
\* returns an error.
CheckLine_AbortOnError(url, ans) ==
    /\ pc = "run"
    /\ Len(stdin) < MaxProbeLines
    /\ stdin' = Append(stdin, url)
    /\ LET groupEmail == extractGroupEmail(url)
           r          == checkGroupHTML(url, ans)
       IN  IF groupEmail = <<>>
           THEN /\ stderr' = Append(stderr, <<"Could not extract group email", url>>)
                /\ results' = Append(results, Result("Error", FALSE, NoPermissions, NoAnswer))
                /\ UNCHANGED <<pc, stdout, requests, ticks>>
           ELSE /\ ticks' = ticks + 1
                /\ requests' = Append(requests, normalizedURL(url))
                /\ IF r.err
                   THEN /\ stderr' = Append(stderr, <<"Error checking", url>>)
                        /\ results' = Append(results, Result("Error", FALSE, NoPermissions, ans))
                        /\ pc' = "exit1"
                        /\ UNCHANGED stdout
                   ELSE /\ stderr' =
                              IF verbose THEN Append(stderr, <<"Group", groupEmail, r.perms>>)
                              ELSE IF ~isOpen(r.perms)
                                   THEN Append(stderr, <<"Rejected", groupEmail>>)
                              ELSE stderr
                        /\ stdout' = IF isOpen(r.perms) THEN Append(stdout, url) ELSE stdout
                        /\ results' = Append(results,
                               Result(IF isOpen(r.perms) THEN "Accepted" ELSE "Rejected",
                                      TRUE, r.perms, ans))
                        /\ UNCHANGED pc
    /\ Limiter(extractGroupEmail(url) # <<>>, 0)
    /\ UNCHANGED <<requirePost, verbose, dedupVars, fetchVars>>

\* One iteration of the scanner loop on the line url, the network answering
\* ans if a request is made; the iteration takes d tenths of a second from
\* the call of checkGroupHTML (from its top if none is made) to the next line.
ProbeLine(url, ans, d) ==
    /\ pc = "run"
    /\ stdin' = Append(stdin, url)
    /\ LET groupEmail == extractGroupEmail(url)
           r          == checkGroupHTML(url, ans)
       IN  IF groupEmail = <<>>
           THEN /\ stderr' = Append(stderr, <<"Could not extract group email", url>>)
                /\ results' = Append(results, Result("Error", FALSE, NoPermissions, NoAnswer))
                /\ UNCHANGED <<stdout, requests, ticks>>
           ELSE /\ ticks' = ticks + 1
                /\ requests' = Append(requests, normalizedURL(url))
                /\ IF r.err
                   THEN /\ stderr' = Append(stderr, <<"Error checking", url>>)
                        /\ results' = Append(results, Result("Error", FALSE, NoPermissions, ans))
                        /\ UNCHANGED stdout
                   ELSE /\ stderr' =
                              IF verbose THEN Append(stderr, <<"Group", groupEmail, r.perms>>)
                              ELSE IF ~isOpen(r.perms)
                                   THEN Append(stderr, <<"Rejected", groupEmail>>)
                              ELSE stderr
                        /\ stdout' = IF isOpen(r.perms) THEN Append(stdout, url) ELSE stdout
                        /\ results' = Append(results,
                               Result(IF isOpen(r.perms) THEN "Accepted" ELSE "Rejected",
                                      TRUE, r.perms, ans))
    /\ Limiter(extractGroupEmail(url) # <<>>, d)
    /\ UNCHANGED <<pc, requirePost, verbose, dedupVars, fetchVars>>

\* An iteration of the scanner loop whose request is answered at once.
CheckLine(url, ans) ==
    /\ Len(stdin) < MaxProbeLines
    /\ ProbeLine(url, ans, 0)

\* The answers the network may give to the probe of the line url: any for
\* the base group URL, a 200 with a public viewable group, a 401 or a 404
\* for another line with an identity, none when no request is made.
AnswersFor(url) ==
    IF extractGroupEmail(url) = <<>> THEN {NoAnswer}
    ELSE IF url = URL("https:", <<"x">>, <<"x">>, <<>>) THEN Answers
    ELSE {Answer(0, "response", 200, "none", <<AnyoneOnTheWeb, Space, CanViewPhrase>>, TRUE),
          Answer(0, "response", 401, "none", <<>>, TRUE),
          Answer(0, "response", 404, "none", <<>>, TRUE)}

CheckNext ==
    \/ \E url \in ProbeLines : \E ans \in AnswersFor(url) : CheckLine(url, ans)
    \/ ScanEOF
    \/ ScanError

CheckSpec == CheckInit /\ [][CheckNext]_vars

\* The runs of check_ that follow its timing: the lines are a group URL or
\* an empty line, every about page answers 200 with a public, viewable
\* group, and an iteration is fast or slow.
RateLines == {URL("https:", <<"x">>, <<"x">>, <<>>), <<>>}

RateAnswer == Answer(0, "response", 200, "none", <<AnyoneOnTheWeb, Space, CanViewPhrase>>, TRUE)

Durations == {0, SlowProbe}

RateInit ==
    /\ CheckInit
    /\ requirePost = FALSE
    /\ verbose = FALSE

RateLine(url, d) ==
    /\ Len(stdin) < MaxRateLines
    /\ ProbeLine(url, RateAnswer, d)

RateNext ==
    \/ \E url \in RateLines : \E d \in Durations : RateLine(url, d)
    \/ ScanEOF
    \/ ScanError

RateSpec == RateInit /\ [][RateNext]_vars

----------------------------------------------------------------------------
(* fetch_alienvault                                                        *)

limitPerPage == 100

requestsPerHour == 9500

\* time.Hour, in seconds.
Hour == 3600

\* The archive: the url_list of page p holds head[p] records for the first
\* pages and tail records from then on; the actual_size field of a page is
\* the length of its url_list plus skew; a fetchURLs call takes latency
\* seconds.
Archives ==
    [head : [1..MaxMixed -> {0, 1, limitPerPage}],
     tail : {0, limitPerPage},
     skew : {0, 1},
     latency : {0, SlowFetch}]

\* len(response.URLList) of page p.
PageSize(p) == IF p <= MaxMixed THEN archive.head[p] ELSE archive.tail

\* response.ActualSize of page p.
ActualSize(p) == PageSize(p) + archive.skew

\* What a fetchURLs call may return: a *Response ("ok") or an error.
FetchOutcomes == {"ok", "transport", "429", "status", "read", "parse"}

\* fetchURLs that drops the last record of a full page.
fetchURLs_Truncated(p, outcome, hasNext) ==
    IF outcome # "ok" THEN [err |-> "failed", size |-> 0, hasNext |-> FALSE]
    ELSE [err |-> "",
          size |-> IF PageSize(p) = limitPerPage THEN limitPerPage - 1 ELSE PageSize(p),
          hasNext |-> hasNext]

\* fetchURLs that reports has_next=true for every response that parses.
fetchURLs_AlwaysMore(p, outcome, hasNext) ==
    IF outcome # "ok" THEN [err |-> "failed", size |-> 0, hasNext |-> FALSE]
    ELSE [err |-> "", size |-> PageSize(p), hasNext |-> TRUE]

\* fetchURLs(domain, page): [err, size, hasNext] for the outcome of the
\* request; hasNext is the has_next field of a response that parses.
fetchURLs(p, outcome, hasNext) ==
    IF outcome = "transport" THEN [err |-> "failed to fetch data", size |-> 0, hasNext |-> FALSE]
    ELSE IF outcome = "429" THEN [err |-> "rate limit exceeded", size |-> 0, hasNext |-> FALSE]
    ELSE IF outcome = "status" THEN [err |-> "unexpected status code", size |-> 0, hasNext |-> FALSE]
    ELSE IF outcome = "read" THEN [err |-> "failed to read response", size |-> 0, hasNext |-> FALSE]
    ELSE IF outcome = "parse" THEN [err |-> "failed to parse JSON", size |-> 0, hasNext |-> FALSE]
    ELSE [err |-> "", size |-> PageSize(p), hasNext |-> hasNext]

FetchInit ==
    /\ pc = "run"
    /\ stdin = <<>>
    /\ stdout = <<>>
    /\ stderr = <<>>
    /\ archive \in Archives
    /\ page = 1
    /\ count = 0
    /\ startTime = 0
    /\ now = 0
    /\ fetches = 0
    /\ windowReqs = 0
    /\ sleeps = 0
    /\ sinceSleep = 0
    /\ sumActual = 0
    /\ lastFetch = <<>>
    /\ lastHasNext = FALSE
    /\ DedupIdle
    /\ CheckIdle

\* The hourly-limit test at the top of the loop.
LimitReached == count > 0 /\ count % requestsPerHour = 0

\* One iteration of the loop of main that skips a page whose fetch failed
\* instead of ending the run.
FetchPage_SkipFailedPage(outcome, hasNext) ==
    /\ pc = "run"
    /\ page <= MaxPages
    /\ count <= MaxURLs
    /\ LET elapsed  == now - startTime
           sleepNow == LimitReached /\ elapsed < Hour
           t        == IF sleepNow THEN now + (Hour - elapsed) ELSE now
           response == fetchURLs(page, outcome, hasNext)
       IN  /\ startTime' = IF LimitReached THEN t ELSE startTime
           /\ sleeps' = IF sleepNow THEN sleeps + 1 ELSE sleeps
           /\ sinceSleep' = IF sleepNow THEN 1 ELSE sinceSleep + 1
           /\ windowReqs' = IF LimitReached THEN 1 ELSE windowReqs + 1
           /\ fetches' = fetches + 1
           /\ now' = t + archive.latency
           /\ lastFetch' = <<page, outcome>>
           /\ lastHasNext' = hasNext
           /\ stderr' = IF response.err # ""
                        THEN Append(stderr, <<"Error fetching page", page, response.err>>)
                        ELSE stderr
           /\ stdout' = IF response.size > 0
                        THEN Append(stdout, <<page, response.size>>)
                        ELSE stdout
           /\ count' = count + response.size
           /\ sumActual' = IF response.err # "" THEN sumActual
                           ELSE sumActual + ActualSize(page)
           /\ IF response.err = "" /\ ~response.hasNext
              THEN pc' = "done" /\ UNCHANGED page
              ELSE page' = page + 1 /\ UNCHANGED pc
    /\ UNCHANGED <<stdin, archive, dedupVars, checkVars>>

\* One iteration of the loop of main: the hourly-limit wait, the fetch of the
\* current page, the output of its URLs and the has_next test.  The n URLs of
\* page p are written as the one entry <<p, n>> of stdout.
FetchPage(outcome, hasNext) ==
    /\ pc = "run"
    /\ page <= MaxPages
    /\ count <= MaxURLs
    /\ LET elapsed  == now - startTime
           sleepNow == LimitReached /\ elapsed < Hour
           waitTime == Hour - elapsed
           t        == IF sleepNow THEN now + waitTime ELSE now
           response == fetchURLs(page, outcome, hasNext)
       IN  /\ startTime' = IF LimitReached THEN t ELSE startTime
           /\ sleeps' = IF sleepNow THEN sleeps + 1 ELSE sleeps
           /\ sinceSleep' = IF sleepNow THEN 1 ELSE sinceSleep + 1
           /\ windowReqs' = IF LimitReached THEN 1 ELSE windowReqs + 1
           /\ fetches' = fetches + 1
           /\ now' = t + archive.latency
           /\ lastFetch' = <<page, outcome>>
           /\ lastHasNext' = hasNext
           /\ IF response.err # ""
              THEN /\ stderr' = Append(IF sleepNow THEN Append(stderr, <<"Reached hourly limit">>)
                                                   ELSE stderr,
                                       <<"Error fetching page", page, response.err>>)
                   /\ pc' = "exit1"
                   /\ UNCHANGED <<stdout, count, sumActual, page>>
              ELSE /\ stdout' = IF response.size > 0
                                THEN Append(stdout, <<page, response.size>>)
                                ELSE stdout
                   /\ count' = count + response.size
                   /\ sumActual' = sumActual + ActualSize(page)
                   /\ IF ~response.hasNext
                      THEN /\ pc' = "done"
                           /\ stderr' = Append(IF sleepNow
                                               THEN Append(stderr, <<"Reached hourly limit">>)
                                               ELSE stderr,
                                               <<"Completed fetching", count'>>)
                           /\ UNCHANGED page
                      ELSE /\ page' = page + 1
                           /\ stderr' = IF sleepNow
                                        THEN Append(stderr, <<"Reached hourly limit">>)
                                        ELSE stderr
                           /\ UNCHANGED pc
    /\ UNCHANGED <<stdin, archive, dedupVars, checkVars>>

FetchNext ==
    \E outcome \in FetchOutcomes : \E hasNext \in BOOLEAN :
        (outcome = "ok" \/ ~hasNext) /\ FetchPage(outcome, hasNext)

FetchSpec == FetchInit /\ [][FetchNext]_vars

\* The loop of main against an archive that has a last page: from page
\* LastPage on it answers has_next=false, or the request fails.
FetchLiveNext ==
    \E outcome \in FetchOutcomes : \E hasNext \in BOOLEAN :
        /\ outcome = "ok" \/ ~hasNext
        /\ page >= LastPage => ~hasNext
        /\ FetchPage(outcome, hasNext)

\* Every request returns and every time.Sleep ends: an iteration of the loop
\* that can be taken is taken.
FetchLiveSpec == FetchInit /\ [][FetchLiveNext]_vars /\ WF_vars(FetchLiveNext)

----------------------------------------------------------------------------
(* The group-URL grammar of the documentation, read from the start of the  *)
(* line:  scheme://groups.google.com/a/{domain}/g/{group}[suffix].         *)

Range(s) == {s[i] : i \in DOMAIN s}

NoDup(s) == \A i, j \in DOMAIN s : i # j => s[i] # s[j]

Front(s) == SubSeq(s, 1, Len(s) - 1)

\* s without the later occurrences of each element.
RECURSIVE FirstSeenOrder(_)
FirstSeenOrder(s) ==
    IF s = <<>> THEN <<>>
    ELSE LET r == FirstSeenOrder(Front(s))
             x == s[Len(s)]
         IN  IF x \in Range(r) THEN r ELSE Append(r, x)

\* The last token of {domain} in a line that starts with the URL prefix.
GrammarDomainEnd(l) == RunEnd(l, 8, {"/"})

\* l has the shape of the grammar, {domain} and {group} non-empty and free of "/".
IsGroupURL(l) ==
    /\ PrefixAt(l, 1)
    /\ GrammarDomainEnd(l) >= 8
    /\ SlashGAt(l, GrammarDomainEnd(l) + 1)
    /\ RunEnd(l, GrammarDomainEnd(l) + 4, {"/"}) >= GrammarDomainEnd(l) + 4

\* The last token of {groupName}: the group ends where a suffix (a query
\* string "?...", a fragment "#..." or a sub-path "/...") starts.
GroupNameEnd(l) == RunEnd(l, GrammarDomainEnd(l) + 4, {"/", "?", "#"})

\* l is a valid GroupURL with a non-empty groupName before its suffix.
HasIdentity(l) ==
    /\ PrefixAt(l, 1)
    /\ GrammarDomainEnd(l) >= 8
    /\ SlashGAt(l, GrammarDomainEnd(l) + 1)
    /\ GroupNameEnd(l) >= GrammarDomainEnd(l) + 4

\* scheme://groups.google.com/a/{domain}/g/{groupName}, the suffix discarded.
CanonicalForm(l) == SubSeq(l, 1, GroupNameEnd(l))

----------------------------------------------------------------------------
(* Claims about trim_google_group_urls and filter_google_group_domains.    *)

\* The deduplication key of a line: the full line in full mode, the match in
\* canonical mode.
TrimKey(l) == IF trim THEN TrimFindString(l) ELSE l

\* The keys of the lines of in that the pattern matches, in input order.
RECURSIVE TrimKeys(_)
TrimKeys(in) ==
    IF in = <<>> THEN <<>>
    ELSE LET r == TrimKeys(Front(in))
             l == in[Len(in)]
         IN  IF TrimMatchString(l) THEN Append(r, TrimKey(l)) ELSE r

C2_SuffixDiscarded ==
    trim =>
        \A i, j \in DOMAIN stdin :
            ( /\ stdin[i] # stdin[j]
              /\ HasIdentity(stdin[i])
              /\ HasIdentity(stdin[j])
              /\ CanonicalForm(stdin[i]) = CanonicalForm(stdin[j]) )
            => /\ TrimFindString(stdin[i]) = CanonicalForm(stdin[i])
               /\ TrimFindString(stdin[j]) = CanonicalForm(stdin[i])
               /\ Cardinality({k \in DOMAIN stdout :
                      stdout[k] \in {TrimFindString(stdin[i]),
                                     TrimFindString(stdin[j])}}) = 1

\* C3: when no input line has the shape of the group-URL grammar, nothing is
\* written to the output.
C3_NonMatchingDropped ==
    (\A i \in DOMAIN stdin : ~IsGroupURL(stdin[i])) => stdout = <<>>

\* The domains captured from the lines of in that the Extractor's pattern
\* matches, in input order.
RECURSIVE FilterDomains(_)
FilterDomains(in) ==
    IF in = <<>> THEN <<>>
    ELSE LET r == FilterDomains(Front(in))
             m == FilterFindStringSubmatch(in[Len(in)])
         IN  IF m # <<>> THEN Append(r, m[2]) ELSE r

C12_Idempotent ==
    trim =>
        /\ \A k \in DOMAIN stdout :
              /\ TrimMatchString(stdout[k])
              /\ TrimFindString(stdout[k]) = stdout[k]
        /\ FirstSeenOrder(TrimKeys(stdout)) = stdout

\* A finished canonical-mode run that wrote a line shorter than the line it
\* read (a sub-path was cut off) and a line that keeps its query string.
C12_Witness ==
    /\ trim
    /\ pc = "done"
    /\ Len(stdout) = 2
    /\ stdin[1] # stdout[1]
    /\ stdout[1] = TrimFindString(stdin[1])
    /\ "?" \in Range(stdout[2])
    /\ TrimFindString(stdout[2]) = stdout[2]

\* The identity (domain, groupName) the Prober extracts from the line l,
\* <<>> if it extracts none.
ProberIdentity(l) ==
    LET m == CheckFindStringSubmatch(l)
    IN  IF Len(m) > 2 THEN <<m[2], m[3]>> ELSE <<>>

\* C18: any two different lines the canonical-mode Normalizer writes give
\* the Prober different identities (domain, groupName), so the Prober, fed
\* with the Normalizer's output, requests no about page twice.
C18_DistinctIdentities ==
    trim =>
        \A i, j \in DOMAIN stdout :
            (i # j /\ ProberIdentity(stdout[i]) # <<>>)
                => /\ ProberIdentity(stdout[i]) # ProberIdentity(stdout[j])
                   /\ ProberIdentity(stdout[j]) # <<>>
                         => normalizedURL(stdout[i]) # normalizedURL(stdout[j])

----------------------------------------------------------------------------
(* Claims about check_google_group_permissions.                            *)

\* The exposure policy: public and viewable or joinable, and postable when
\* post is required.
ExposurePolicy(p, post) ==
    p.IsPublic /\ (p.CanView \/ p.CanJoin) /\ (post => p.CanPost)

\* The lines of in whose classification res meets the exposure policy.
RECURSIVE Exposed(_, _)
Exposed(in, res) ==
    IF in = <<>> \/ res = <<>> THEN <<>>
    ELSE LET n == Len(res)
             r == Exposed(SubSeq(in, 1, n - 1), Front(res))
         IN  IF res[n].hasPerms /\ ExposurePolicy(res[n].perms, requirePost)
             THEN Append(r, in[n]) ELSE r

\* C5: the primary output holds exactly the probed lines whose profile has
\* isPublic && (canView || canJoin), and canPost too under require-post; what
\* is accepted under require-post is accepted without it; a public, viewable
\* group that cannot be posted to is Accepted exactly when require-post is off.
C5_Decide ==
    /\ Len(results) = Len(stdin)
    /\ stdout = Exposed(stdin, results)
    /\ \A i \in DOMAIN results :
          LET r == results[i]
          IN  /\ r.state = "Accepted" <=>
                    (r.hasPerms /\ ExposurePolicy(r.perms, requirePost))
              /\ r.state = "Accepted" => ExposurePolicy(r.perms, FALSE)
              /\ (r.hasPerms /\ r.perms.IsPublic /\ r.perms.CanView /\ ~r.perms.CanPost)
                    => (r.state = "Accepted" <=> ~requirePost)
              /\ (r.hasPerms /\ r.state # "Accepted") => r.state = "Rejected"

\* Under require-post, a public viewable group without public posting was
\* rejected and a group with public viewing and posting was accepted.
C5_Witness ==
    /\ requirePost
    /\ Len(results) = 2
    /\ results[1].hasPerms
    /\ results[1].perms.IsPublic /\ results[1].perms.CanView /\ ~results[1].perms.CanPost
    /\ results[1].state = "Rejected"
    /\ results[2].hasPerms
    /\ results[2].perms.CanView /\ results[2].perms.CanPost
    /\ results[2].state = "Accepted"
    /\ stdout = <<stdin[2]>>

\* The request ends with the response of ans (the redirects before it were
\* followed).
EndsInResponse(ans) == ans.kind = "response" /\ ans.hops < MaxRedirects

\* C6: a request that ends in a redirect (of any redirect status) to the login
\* domain, or in a 401 or 403, is classified {isPublic:false,
\* requiresAuth:true} with no capability flag, and the candidate is Rejected.
C6_LoginRedirectRejected ==
    \A i \in DOMAIN results :
        LET a == results[i].answer
        IN  ( /\ EndsInResponse(a)
              /\ \/ a.status \in RedirectStatuses /\ a.location = "login"
                 \/ a.status \in {401, 403} )
            => /\ results[i].state = "Rejected"
               /\ results[i].hasPerms
               /\ results[i].perms = GroupPermissions(FALSE, FALSE, FALSE, FALSE, TRUE)

\* The lines of in that ended in Accepted.
RECURSIVE AcceptedLines(_, _)
AcceptedLines(in, res) ==
    IF in = <<>> \/ res = <<>> THEN <<>>
    ELSE LET n == Len(res)
             r == AcceptedLines(SubSeq(in, 1, n - 1), Front(res))
         IN  IF res[n].state = "Accepted" THEN Append(r, in[n]) ELSE r

\* C10: every line read has reached exactly one of Accepted, Rejected and
\* Error, in input order; whatever the outcomes, the loop is left only at the
\* end of the input (exit 0) or on a stream failure (exit 1), so no outcome
\* of a line keeps the next line from being processed; the primary output is
\* the subsequence of the unmodified input lines that ended in Accepted.
C10_NonFatal ==
    /\ Len(results) = Len(stdin)
    /\ \A i \in DOMAIN results : results[i].state \in {"Accepted", "Rejected", "Error"}
    /\ \A i \in DOMAIN stdin :
          extractGroupEmail(stdin[i]) = <<>> => results[i].state = "Error"
    /\ stdout = AcceptedLines(stdin, results)
    /\ pc \in {"run", "done", "exit1"}
    /\ pc = "exit1" => stderr # <<>> /\ stderr[Len(stderr)] = <<"Error reading input">>

\* A finished run: the first line ended in Error, the second, a line with
\* text around its URL, was Accepted and written as read.
C10_Witness ==
    /\ pc = "done"
    /\ Len(results) = 2
    /\ results[1].state = "Error"
    /\ results[1].answer # NoAnswer
    /\ results[2].state = "Accepted"
    /\ stdin[2] # CanonicalForm(stdin[2])
    /\ ~HasIdentity(stdin[2])
    /\ stdout = <<stdin[2]>>

\* The capability phrases of the about page.
CapabilityPhrases == {CanViewPhrase, CanJoinPhrase, CanPostPhrase}

\* body holds a statement about anyone on the web whose capability is phrase:
\* 'Anyone on the web', then within the window and on the same line the
\* phrase, with no other capability phrase (the end of that statement) in
\* between.
OwnStatement(body, phrase) ==
    \E i, j \in DOMAIN body :
        /\ i < j
        /\ body[i] = AnyoneOnTheWeb
        /\ body[j] = phrase
        /\ \A k \in (i + 1)..(j - 1) : body[k] \notin CapabilityPhrases \cup {LineBreak}
        /\ SpanLen(body, i + 1, j - 1) <= Lookahead

\* C13: a 200 response whose body was read is classified isPublic=true,
\* requiresAuth=false, and each of canView, canJoin, canPost is true exactly
\* when the body holds 'Anyone on the web' followed within 50 characters by
\* that capability's own phrase; a phrase that belongs to another statement
\* sets no flag; the body 'Anyone on the web can view conversations' yields
\* canView only.
C13_OwnPhraseOnly ==
    \A i \in DOMAIN results :
        LET a == results[i].answer
            p == results[i].perms
        IN  (EndsInResponse(a) /\ a.status = 200 /\ a.bodyOK) =>
                /\ results[i].hasPerms
                /\ p.IsPublic
                /\ ~p.RequireAuth
                /\ p.CanView = OwnStatement(a.body, CanViewPhrase)
                /\ p.CanJoin = OwnStatement(a.body, CanJoinPhrase)
                /\ p.CanPost = OwnStatement(a.body, CanPostPhrase)
                /\ a.body = <<AnyoneOnTheWeb, Space, CanViewPhrase>> =>
                       p = GroupPermissions(TRUE, TRUE, FALSE, FALSE, FALSE)

\* https://groups.google.com/a/{domain}/g/{groupName}/about
AboutPage(domain, groupName) ==
    <<"https:", "/", "/", "groups.google.com", "/", "a", "/">> \o domain
        \o <<"/", "g", "/">> \o groupName \o <<"/", "about">>

\* The about pages of the lines of in from which an identity is extracted, in
\* input order.
RECURSIVE ProbeTargets(_)
ProbeTargets(in) ==
    IF in = <<>> THEN <<>>
    ELSE LET r == ProbeTargets(Front(in))
             m == CheckFindStringSubmatch(in[Len(in)])
         IN  IF m # <<>> /\ m[2] # <<>> /\ m[3] # <<>>
             THEN Append(r, AboutPage(m[2], m[3])) ELSE r

\* The lines of in from which no identity is extracted.
NoIdentityLines(in) == {i \in DOMAIN in : extractGroupEmail(in[i]) = <<>>}

\* C14: a line from which no identity (non-empty domain and groupName) is
\* extracted ends in Error with one diagnostic and nothing else: no request,
\* no tick, no output line, and the lines after it are processed; requests
\* are made for the other lines only, one tick each, to
\* https://groups.google.com/a/{domain}/g/{groupName}/about of their identity.
C14_Identify ==
    LET none == NoIdentityLines(stdin)
    IN  /\ Len(results) = Len(stdin)
        /\ requests = ProbeTargets(stdin)
        /\ ticks = Len(requests)
        /\ Len(requests) = Len(stdin) - Cardinality(none)
        /\ \A i \in none :
              /\ results[i].state = "Error"
              /\ ~results[i].hasPerms
              /\ results[i].answer = NoAnswer
              /\ <<"Could not extract group email", stdin[i]>> \in Range(stderr)
        /\ Cardinality({k \in DOMAIN stderr : stderr[k][1] = "Could not extract group email"})
              <= Cardinality(none)
        /\ Len(stderr) <= Len(stdin) + (IF pc = "exit1" THEN 1 ELSE 0)
        /\ stdout = AcceptedLines(stdin, results)

\* A finished run: the first line, a URL without a group name, ended in Error
\* with its diagnostic alone; the second, an http URL with a query, was
\* probed at the https about page of its identity and written.
C14_Witness ==
    /\ pc = "done"
    /\ Len(stdin) = 2
    /\ stdin[1] # <<>>
    /\ extractGroupEmail(stdin[1]) = <<>>
    /\ stderr = <<<<"Could not extract group email", stdin[1]>>>>
    /\ stdin[2][2] = "http:"
    /\ requests = <<AboutPage(<<"y">>, <<"x">>)>>
    /\ ticks = 1
    /\ stdout = <<stdin[2]>>

\* C20: every profile checkGroupHTML returns has exactly one of isPublic
\* and requiresAuth set, and has canView, canJoin or canPost set only when
\* isPublic is; a line whose probe returned no profile (Error) is not
\* written to the primary output.
C20_ProfileShape ==
    /\ \A i \in DOMAIN results :
          LET p == results[i].perms
          IN  /\ results[i].hasPerms =>
                    /\ p.IsPublic # p.RequireAuth
                    /\ (p.CanView \/ p.CanJoin \/ p.CanPost) => p.IsPublic
              /\ results[i].state = "Error" <=> ~results[i].hasPerms
              /\ results[i].state = "Accepted" => (results[i].hasPerms /\ p.IsPublic)
    /\ stdout = AcceptedLines(stdin, results)
    /\ Len(stdout) <= Cardinality({i \in DOMAIN results : results[i].hasPerms})

\* A finished run over the same line twice: its first probe returned the
\* profile of a group behind a login, the second failed with a 404; nothing
\* was written.
C20_Witness ==
    /\ pc = "done"
    /\ Len(results) = 2
    /\ stdin[1] = stdin[2]
    /\ results[1].hasPerms
    /\ results[1].perms.RequireAuth
    /\ results[2].state = "Error"
    /\ results[2].answer.status = 404
    /\ stdout = <<>>

\* What a run over the lines of in writes when the network answers the probe
\* of line i with res[i].answer and -verbose is v: the state each line ends
\* in, the lines written (out) and the diagnostics (diag).  A function of
\* the input, the answers, -require-post and v alone; v enters diag only.
RECURSIVE Expected(_, _, _)
Expected(in, res, v) ==
    IF in = <<>> \/ res = <<>> THEN [states |-> <<>>, out |-> <<>>, diag |-> <<>>]
    ELSE LET n == Len(res)
             r == Expected(SubSeq(in, 1, n - 1), Front(res), v)
             c == checkGroupHTML(in[n], res[n].answer)
             e == extractGroupEmail(in[n])
             open == ExposurePolicy(c.perms, requirePost)
         IN  IF e = <<>>
             THEN [states |-> Append(r.states, "Error"), out |-> r.out,
                   diag |-> Append(r.diag, <<"Could not extract group email", in[n]>>)]
             ELSE IF c.err
             THEN [states |-> Append(r.states, "Error"), out |-> r.out,
                   diag |-> Append(r.diag, <<"Error checking", in[n]>>)]
             ELSE [states |-> Append(r.states, IF open THEN "Accepted" ELSE "Rejected"),
                   out |-> IF open THEN Append(r.out, in[n]) ELSE r.out,
                   diag |-> IF v THEN Append(r.diag, <<"Group", e, c.perms>>)
                            ELSE IF ~open THEN Append(r.diag, <<"Rejected", e>>)
                            ELSE r.diag]

\* C19: the requests made and the lines written are determined by the input
\* lines, the answers of the network and -require-post, the same with
\* -verbose on and off; -verbose changes the diagnostic stream only (a line
\* per classified group instead of a line per rejected group).
C19_VerboseOnlyDiagnostics ==
    LET x == Expected(stdin, results, verbose)
    IN  /\ requests = ProbeTargets(stdin)
        /\ stdout = x.out
        /\ pc # "exit1" => stderr = x.diag
        /\ x.states = [i \in DOMAIN results |-> results[i].state]

\* A finished verbose run: the first line was accepted, the second rejected;
\* the diagnostic stream holds a line for each, which it would not without
\* -verbose, and the output holds the first line.
C19_Witness ==
    /\ verbose
    /\ pc = "done"
    /\ Len(results) = 2
    /\ results[1].state = "Accepted"
    /\ results[2].state = "Rejected"
    /\ Len(stderr) = 2
    /\ stderr[1][1] = "Group"
    /\ stderr # Expected(stdin, results, FALSE).diag
    /\ stdout = Expected(stdin, results, FALSE).out
    /\ stdout = <<stdin[1]>>
    /\ Len(requests) = 2

----------------------------------------------------------------------------
(* Claims about fetch_alienvault.                                          *)

\* The number of URLs written: the sum of the sizes of the entries of out.
RECURSIVE TotalRecords(_)
TotalRecords(out) ==
    IF out = <<>> THEN 0 ELSE out[Len(out)][2] + TotalRecords(Front(out))

RECURSIVE HeadRecords(_)
HeadRecords(n) == IF n = 0 THEN 0 ELSE archive.head[n] + HeadRecords(n - 1)

\* The number of records on the pages 1..n of the archive.
ArchiveRecords(n) ==
    IF n <= MaxMixed THEN HeadRecords(n)
    ELSE HeadRecords(MaxMixed) + (n - MaxMixed) * archive.tail

\* The entries of out are whole url_lists of pages up to n, in page order.
PagesInOrder(out, n) ==
    \A k \in DOMAIN out :
        /\ out[k][1] \in 1..n
        /\ out[k][2] = PageSize(out[k][1])
        /\ k > 1 => out[k - 1][1] < out[k][1]

\* C7: while less than an hour has passed since the start of the current
\* window, at most requestsPerHour page requests have been issued in it.
C7_QuotaCeiling ==
    now - startTime < Hour => windowReqs <= requestsPerHour

\* C8: when the fetch of page N fails (transport error, 429, other non-200
\* status, unreadable or unparsable body) the run ends with exit status 1;
\* pages 1..N were requested once each and none after N, the output holds the
\* URLs of the pages 1..N-1 and no URL of page N; the run ends with exit
\* status 1 for no other reason.
C8_FailureFatal ==
    /\ (lastFetch # <<>> /\ lastFetch[2] # "ok") =>
          /\ pc = "exit1"
          /\ lastFetch[1] = page
          /\ fetches = page
          /\ PagesInOrder(stdout, page - 1)
          /\ TotalRecords(stdout) = ArchiveRecords(page - 1)
          /\ stderr # <<>>
          /\ stderr[Len(stderr)][1] = "Error fetching page"
          /\ stderr[Len(stderr)][2] = page
    /\ pc = "exit1" => (lastFetch # <<>> /\ lastFetch[2] # "ok")

\* The fetch of page 3 failed after two pages with URLs were written.
C8_Witness ==
    /\ pc = "exit1"
    /\ lastFetch = <<3, "429">>
    /\ fetches = 3
    /\ Len(stdout) = 2
    /\ stdout[1][1] = 1
    /\ stdout[2][1] = 2

\* C9 as stated: a run that ends without error has written as many URLs as
\* the actual_size fields of the fetched pages add up to; when page 1 answers
\* has_next=false that is one fetch and actual_size URLs.
C9_ActualSizeURLs ==
    pc = "done" =>
        /\ TotalRecords(stdout) = sumActual
        /\ page = 1 => (fetches = 1 /\ TotalRecords(stdout) = ActualSize(1))

\* C9, amended: a run that ends without error has fetched the pages 1..N once
\* each and written, in page order then record order, the records of their
\* url_lists, as many URLs as the url_lists hold; when page 1 answers
\* has_next=false that is one fetch and len(url_list) URLs, which is
\* actual_size URLs when the field equals the length of the list.
C9_ListLengthURLs ==
    pc = "done" =>
        /\ fetches = page
        /\ PagesInOrder(stdout, page)
        /\ TotalRecords(stdout) = ArchiveRecords(page)
        /\ count = TotalRecords(stdout)
        /\ archive.skew = 0 => TotalRecords(stdout) = sumActual
        /\ page = 1 =>
              /\ fetches = 1
              /\ TotalRecords(stdout) = PageSize(1)
              /\ archive.skew = 0 => TotalRecords(stdout) = ActualSize(1)

\* Page 1 answered has_next=false with a full url_list and an actual_size
\* that is not the length of the list.
C9_Witness ==
    /\ pc = "done"
    /\ page = 1
    /\ fetches = 1
    /\ PageSize(1) = limitPerPage
    /\ ActualSize(1) # PageSize(1)
    /\ stdout = <<<<1, limitPerPage>>>>

\* C15: the page cursor starts at 1; the k-th request of a run asks for page
\* k, so the pages requested are 1, 2, ..., N without gap or repetition; the
\* next page is requested only after the last one was answered successfully
\* with has_next=true; after an answer with has_next=false the run is over
\* (no request follows).
C15_PagesInSequence ==
    /\ page >= 1
    /\ fetches = 0 => (page = 1 /\ lastFetch = <<>> /\ pc = "run")
    /\ fetches > 0 => lastFetch[1] = fetches
    /\ pc = "run" => page = fetches + 1
    /\ pc # "run" => page = fetches
    /\ (pc = "run" /\ fetches > 0) => (lastFetch[2] = "ok" /\ lastHasNext)
    /\ (fetches > 0 /\ lastFetch[2] = "ok" /\ ~lastHasNext) => pc = "done"
    /\ pc = "done" => (lastFetch[2] = "ok" /\ ~lastHasNext)
    /\ PagesInOrder(stdout, fetches)

\* Three pages were requested; the third answered has_next=false and the
\* run ended with the URLs of the pages 1, 2, 3 written in this order.
C15_Witness ==
    /\ pc = "done"
    /\ fetches = 3
    /\ page = 3
    /\ lastFetch = <<3, "ok">>
    /\ ~lastHasNext
    /\ Len(stdout) = 3
    /\ stdout[3][1] = 3

\* C16: the Fetcher never suspends twice with fewer than requestsPerHour
\* page requests in between: when it has suspended s times, at least
\* requestsPerHour requests were made before each suspension after the first.
C16_QuotaReset ==
    sleeps >= 2 => fetches >= requestsPerHour * (sleeps - 1)

\* C17: when every request returns and the archive answers has_next=false
\* or fails at some page, the Fetcher terminates, having written finitely
\* many URLs; every suspension is followed by a fetch in the same iteration
\* and lasts at most an hour, so the time spent is bounded by the number of
\* requests.
C17_Terminates ==
    /\ [](sleeps <= fetches)
    /\ [](now <= fetches * (Hour + SlowFetch))
    /\ [](count = TotalRecords(stdout))
    /\ <>(pc \in {"done", "exit1"})

\* A run that suspended once for the hourly limit, went on fetching and
\* ended at a page that answered has_next=false.
C17_Witness ==
    /\ pc = "done"
    /\ sleeps = 1
    /\ now >= Hour
    /\ fetches > 96
    /\ count = TotalRecords(stdout)

----------------------------------------------------------------------------
(* Claims about the rate limit of check_google_group_permissions.          *)

\* C11: every probe starts after a receive from the one ticker of the run,
\* and in no window of one second more than 5 probes start: the sixth start
\* after any start is at least a second later.
C11_FivePerSecond ==
    /\ ticks = Len(probeStarts)
    /\ Len(requests) = Len(probeStarts)
    /\ \A i \in DOMAIN probeStarts :
          (i + 5) \in DOMAIN probeStarts => probeStarts[i + 5] - probeStarts[i] >= Second

====
